---- MODULE Spec2Model ----
(***************************************************************************)
(* Tracking of an Airflow workflow (training, then batch transform) as     *)
(* SageMaker Experiments records, and the notebook's cleanup(experiment).  *)
(*                                                                         *)
(* The registry (experiments, trials, trial components, associations) and  *)
(* the job platform are the shared external store the notebook's code      *)
(* calls; the orchestrator runs the two task callables of the DAG.         *)
(***************************************************************************)
EXTENDS Integers, Sequences, FiniteSets, TLC

\* ------------------------------------------------------------------ bounds
MaxResets == 2        \* re-submissions of the DAG run (backfill --reset_dagruns)
MaxExtAssoc == 2      \* associations made by other clients of the registry

\* --------------------------------------------------------------- constants
TicksPerSec == 2      \* clock ticks per second: int(time.time()) truncates to seconds

experiment_name == "fashion-mnist-classification-experiment"
other_experiment == "other-experiment"
NoJob == [kind |-> "none", stamp |-> 0]
OtherTrialName == [kind |-> "other", stamp |-> 0]

Tasks == {"training", "transform"}
TASK_PENDING == "PENDING"
TASK_SUBMITTED == "SUBMITTED"
TASK_TRACKED == "TRACKED"
TASK_SUBMIT_FAILED == "SUBMIT_FAILED"

VARIABLES
    now,          \* the clock, in ticks; it advances while a training job runs
                  \* and between the end of a run and its re-submission
    experiments,  \* registry: names of the experiments that exist
    trials,       \* registry: trial records [name, exp, source, ctime]
    tcs,          \* registry: trial component records [name, display, ctime]
    assoc,        \* registry: <<trial name, trial component name>> associations
    jobs,         \* job platform: names of the training/transform jobs created
    ti,           \* orchestrator: state of each task instance of the DAG run
    phase,        \* tracking state of the current attempt of each task
    jobname,      \* job name the current attempt of each task submitted
    xcom,         \* orchestrator: return value pushed by each task
    pulled,       \* transform: the value of xcom_pull(task_ids='training')
    resets,       \* number of re-submissions of the DAG run so far
    cl,           \* cleanup(experiment): position, loop state and outcome
    next          \* number of associations other clients have made so far

vars == <<now, experiments, trials, tcs, assoc, jobs, ti, phase, jobname,
          xcom, pulled, resets, cl, next>>

registry == <<experiments, trials, tcs, assoc>>
runvars == <<ti, phase, jobname, xcom, pulled, resets>>

\* ------------------------------------------------------- the DAG's callables

\* experiment_config of estimator.fit
TrainExperimentConfig ==
    [ExperimentName |-> experiment_name, TrialComponentDisplayName |-> "Training"]

TransformExperimentConfigOtherExperiment ==
    [ExperimentName |-> other_experiment, TrialComponentDisplayName |-> "Transform"]

\* experiment_config of transformer.transform
TransformExperimentConfig ==
    [ExperimentName |-> experiment_name, TrialComponentDisplayName |-> "Transform"]

ExperimentConfig(t) ==
    IF t = "training" THEN TrainExperimentConfig ELSE TransformExperimentConfig

JobNameStatic(task, t) == [kind |-> task, stamp |-> 0]

\* The name of the job a callable submits at clock tick `t`: the estimator
\* derives the training job's name from base_job_name and the current time,
\* transform passes f"{base_job_name}-{int(time.time())}".
JobName(task, t) ==
    IF task = "training"
    THEN [kind |-> "training", stamp |-> t]
    ELSE [kind |-> "transform", stamp |-> t \div TicksPerSec]

UpstreamIgnored(t) == TRUE

\* transform_op.set_upstream(train_op): the default trigger rule starts a task
\* once every upstream task has succeeded.
UpstreamDone(t) ==
    IF t = "transform" THEN ti["training"] = "success" ELSE TRUE


\* ------------------------------------------------------------------- state

IdleCleanup ==
    [pc |-> "idle", trialsTodo |-> {}, trial |-> NoJob, tcsTodo |-> {},
     tc |-> NoJob, err |-> "None", at |-> "none", swallowed |-> {},
     skipped |-> {}, quiet |-> TRUE, absent |-> FALSE]

Init ==
    /\ now = 0
    /\ experiments = {other_experiment}
    /\ trials = {[name |-> OtherTrialName, exp |-> other_experiment,
                  source |-> NoJob, ctime |-> 0]}
    /\ tcs = {}
    /\ assoc = {}
    /\ jobs = {}
    /\ ti = [t \in Tasks |-> "none"]
    /\ phase = [t \in Tasks |-> TASK_PENDING]
    /\ jobname = [t \in Tasks |-> NoJob]
    /\ xcom = [t \in Tasks |-> NoJob]
    /\ pulled = NoJob
    /\ resets = 0
    /\ cl = IdleCleanup
    /\ next = 0

TrialNames == {t.name : t \in trials}
TcNames == {c.name : c \in tcs}
TrialsOf(e) == {t \in trials : t.exp = e}
ComponentsOf(t) == {p[2] : p \in {q \in assoc : q[1] = t}}
TrialsHolding(c) == {p[1] : p \in {q \in assoc : q[2] = c}}

\* Another actor changes the registry: the current (or last) cleanup call no
\* longer has the registry to itself.
Disturb == IF cl.pc # "idle" THEN [cl EXCEPT !.quiet = FALSE] ELSE cl

\* ---------------------------------------------------------------- registry

\* Experiment.create(experiment_name=..., description=...); it raises
\* AlreadyExists, and changes nothing, when the experiment exists.
CreateExperiment ==
    /\ experiment_name \notin experiments
    /\ experiments' = experiments \cup {experiment_name}
    /\ cl' = Disturb
    /\ UNCHANGED <<now, trials, tcs, assoc, jobs, runvars, next>>

\* The platform's job names are unique per kind of job.
JobNameFree(j) == j \notin jobs

\* What the platform records for an accepted job submitted with an
\* experiment_config that names no trial: a new trial for that execution,
\* whose source is the job, and the job's trial component in it.
TrackJob(j, cfg) ==
    /\ jobs' = jobs \cup {j}
    /\ trials' = trials \cup {[name |-> j, exp |-> cfg.ExperimentName,
                               source |-> j, ctime |-> now]}
    /\ tcs' = tcs \cup {[name |-> j, display |-> cfg.TrialComponentDisplayName,
                         ctime |-> now]}
    /\ assoc' = assoc \cup {<<j, j>>}

\* Another client of the shared registry: trial.add_trial_component(tc).
ExtAssociate(t, c) ==
    /\ next < MaxExtAssoc
    /\ t \in TrialNames
    /\ c \in TcNames
    /\ <<t, c>> \notin assoc
    /\ assoc' = assoc \cup {<<t, c>>}
    /\ next' = next + 1
    /\ cl' = Disturb
    /\ UNCHANGED <<now, experiments, trials, tcs, jobs, runvars>>

\* ------------------------------------------------------------ the DAG run

\* train(data, **context) up to the request of estimator.fit
StartTraining ==
    /\ ti["training"] = "none"
    /\ UpstreamDone("training")
    /\ ti' = [ti EXCEPT !["training"] = "running"]
    /\ jobname' = [jobname EXCEPT !["training"] = JobName("training", now)]
    /\ phase' = [phase EXCEPT !["training"] = TASK_SUBMITTED]
    /\ UNCHANGED <<now, registry, jobs, xcom, pulled, resets, cl, next>>

\* transform(data, **context) up to the request of transformer.transform;
\* TensorFlow.attach raises when the pulled value names no training job.
StartTransform ==
    /\ ti["transform"] = "none"
    /\ UpstreamDone("transform")
    /\ pulled' = xcom["training"]
    /\ IF xcom["training"] \in jobs
       THEN /\ ti' = [ti EXCEPT !["transform"] = "running"]
            /\ jobname' = [jobname EXCEPT !["transform"] = JobName("transform", now)]
            /\ phase' = [phase EXCEPT !["transform"] = TASK_SUBMITTED]
       ELSE /\ ti' = [ti EXCEPT !["transform"] = "failed"]
            /\ UNCHANGED <<jobname, phase>>
    /\ UNCHANGED <<now, registry, jobs, xcom, resets, cl, next>>

\* The platform accepts the job of task t: the job exists and is tracked.
\* estimator.fit then waits for the job; transformer.transform returns.
SubmitAccepted(t) ==
    /\ phase[t] = TASK_SUBMITTED
    /\ ExperimentConfig(t).ExperimentName \in experiments
    /\ JobNameFree(jobname[t])
    /\ TrackJob(jobname[t], ExperimentConfig(t))
    /\ phase' = [phase EXCEPT ![t] = TASK_TRACKED]
    /\ ti' = IF t = "transform" THEN [ti EXCEPT ![t] = "success"] ELSE ti
    /\ cl' = Disturb
    /\ UNCHANGED <<now, experiments, jobname, xcom, pulled, resets, next>>

SubmitRejectedSwallowed(t) ==
    /\ phase[t] = TASK_SUBMITTED
    /\ phase' = [phase EXCEPT ![t] = TASK_SUBMIT_FAILED]
    /\ ti' = [ti EXCEPT ![t] = "success"]
    /\ xcom' = [xcom EXCEPT ![t] = jobname[t]]
    /\ UNCHANGED <<now, registry, jobs, jobname, pulled, resets, cl, next>>

\* The platform rejects the job of task t (unknown experiment, job name in
\* use, or any other refusal): the callable raises.
SubmitRejected(t) ==
    /\ phase[t] = TASK_SUBMITTED
    /\ phase' = [phase EXCEPT ![t] = TASK_SUBMIT_FAILED]
    /\ ti' = [ti EXCEPT ![t] = "failed"]
    /\ UNCHANGED <<now, registry, jobs, jobname, xcom, pulled, resets, cl, next>>

\* estimator.fit returns, a tick after the job was accepted at the earliest;
\* train returns estimator.latest_training_job.job_name, which the
\* orchestrator pushes as the task's xcom value.
TrainingJobCompleted ==
    /\ phase["training"] = TASK_TRACKED
    /\ ti["training"] = "running"
    /\ now' = now + 1
    /\ ti' = [ti EXCEPT !["training"] = "success"]
    /\ xcom' = [xcom EXCEPT !["training"] = jobname["training"]]
    /\ UNCHANGED <<registry, jobs, phase, jobname, pulled, resets, cl, next>>

\* The training job fails: estimator.fit raises and so does train.
TrainingJobFailed ==
    /\ phase["training"] = TASK_TRACKED
    /\ ti["training"] = "running"
    /\ ti' = [ti EXCEPT !["training"] = "failed"]
    /\ UNCHANGED <<now, registry, jobs, phase, jobname, xcom, pulled, resets, cl, next>>

\* The orchestrator does not run a task whose upstream task failed.
SkipDownstream ==
    /\ ti["training"] = "failed"
    /\ ti["transform"] = "none"
    /\ ti' = [ti EXCEPT !["transform"] = "upstream_failed"]
    /\ UNCHANGED <<now, registry, jobs, phase, jobname, xcom, pulled, resets, cl, next>>

RunFinished ==
    /\ ti["training"] \in {"success", "failed"}
    /\ ti["transform"] \in {"success", "failed", "upstream_failed"}

\* airflow backfill fashion-mnist -s 2020-01-01 --reset_dagruns -y, run again:
\* the same DAG run is reset and both tasks are submitted anew, `d` clock
\* ticks after the run ended.
ResetDagRun(d) ==
    /\ RunFinished
    /\ resets < MaxResets
    /\ now' = now + d
    /\ resets' = resets + 1
    /\ ti' = [t \in Tasks |-> "none"]
    /\ phase' = [t \in Tasks |-> TASK_PENDING]
    /\ jobname' = [t \in Tasks |-> NoJob]
    /\ xcom' = [t \in Tasks |-> NoJob]
    /\ pulled' = NoJob
    /\ UNCHANGED <<registry, jobs, cl, next>>


\* ----------------------------------------------------- cleanup(experiment)

\* An exception leaves cleanup: the call `at` raised `err`.
Raise(err, at) ==
    [cl EXCEPT !.pc = "aborted", !.err = err, !.at = at,
               !.trialsTodo = {}, !.tcsTodo = {}, !.trial = NoJob, !.tc = NoJob]

Outcomes == {"ok", "TransientPlatformError"}

CleanupListAllTrials(o) ==
    /\ cl.pc \in {"idle", "done", "aborted"}
    /\ LET c0 == [IdleCleanup EXCEPT !.absent = (experiment_name \notin experiments)]
       IN  cl' = IF o # "ok"
                 THEN [c0 EXCEPT !.pc = "aborted", !.err = o, !.at = "list_trials"]
                 ELSE [c0 EXCEPT !.pc = "trials", !.trialsTodo = TrialNames]
    /\ UNCHANGED <<now, registry, jobs, runvars, next>>

\* cleanup(experiment) is called: experiment.list_trials()
CleanupListTrials(o) ==
    /\ cl.pc \in {"idle", "done", "aborted"}
    /\ LET c0 == [IdleCleanup EXCEPT !.absent = (experiment_name \notin experiments)]
       IN  cl' = IF o # "ok"
                 THEN [c0 EXCEPT !.pc = "aborted", !.err = o, !.at = "list_trials"]
                 ELSE IF experiment_name \notin experiments
                 THEN [c0 EXCEPT !.pc = "aborted", !.err = "NotFound",
                                 !.at = "list_trials"]
                 ELSE [c0 EXCEPT !.pc = "trials",
                                 !.trialsTodo = {t.name : t \in TrialsOf(experiment_name)}]
    /\ UNCHANGED <<now, registry, jobs, runvars, next>>

\* Trial.load(trial_name=...) and trial.list_trial_components()
CleanupLoadTrial(t, o) ==
    /\ cl.pc = "trials"
    /\ t \in cl.trialsTodo
    /\ cl' = IF o # "ok" THEN Raise(o, "Trial.load")
             ELSE IF t \notin TrialNames THEN Raise("NotFound", "Trial.load")
             ELSE [cl EXCEPT !.pc = "components", !.trial = t,
                             !.trialsTodo = cl.trialsTodo \ {t},
                             !.tcsTodo = ComponentsOf(t)]
    /\ UNCHANGED <<now, registry, jobs, runvars, next>>

CleanupKeepTrialComponent(c, o) ==
    /\ cl.pc = "components"
    /\ c \in cl.tcsTodo
    /\ cl' = IF o # "ok" THEN Raise(o, "remove_trial_component")
             ELSE IF c \notin TcNames \/ cl.trial \notin TrialNames
             THEN Raise("NotFound", "remove_trial_component")
             ELSE [cl EXCEPT !.pc = "tc_delete", !.tc = c,
                             !.tcsTodo = cl.tcsTodo \ {c}]
    /\ UNCHANGED <<now, registry, jobs, runvars, next>>

\* TrialComponent.load(...) and trial.remove_trial_component(tc)
CleanupRemoveTrialComponent(c, o) ==
    /\ cl.pc = "components"
    /\ c \in cl.tcsTodo
    /\ IF o # "ok"
       THEN /\ cl' = Raise(o, "remove_trial_component")
            /\ UNCHANGED assoc
       ELSE IF c \notin TcNames \/ cl.trial \notin TrialNames
       THEN /\ cl' = Raise("NotFound", "remove_trial_component")
            /\ UNCHANGED assoc
       ELSE /\ assoc' = assoc \ {<<cl.trial, c>>}
            /\ cl' = [cl EXCEPT !.pc = "tc_delete", !.tc = c,
                                !.tcsTodo = cl.tcsTodo \ {c}]
    /\ UNCHANGED <<now, experiments, trials, tcs, jobs, runvars, next>>

\* What tc.delete() raises, "ok" when it deletes.
TcDeleteError(c, o) ==
    IF o # "ok" THEN o
    ELSE IF c \notin TcNames THEN "NotFound"
    ELSE IF TrialsHolding(c) # {} THEN "AssociatedElsewhere"
    ELSE "ok"

CleanupDeleteTrialComponentNoExcept(o) ==
    /\ cl.pc = "tc_delete"
    /\ LET e == TcDeleteError(cl.tc, o)
       IN  IF e = "ok"
           THEN /\ tcs' = {c \in tcs : c.name # cl.tc}
                /\ cl' = [cl EXCEPT !.pc = "components", !.tc = NoJob]
           ELSE /\ UNCHANGED tcs
                /\ cl' = Raise(e, "tc.delete")
    /\ UNCHANGED <<now, experiments, trials, assoc, jobs, runvars, next>>

CleanupDeleteTrialComponentAndJob(o) ==
    /\ cl.pc = "tc_delete"
    /\ LET e == TcDeleteError(cl.tc, o)
       IN  IF e = "ok"
           THEN /\ tcs' = {c \in tcs : c.name # cl.tc}
                /\ jobs' = jobs \ {cl.tc}
                /\ cl' = [cl EXCEPT !.pc = "components", !.tc = NoJob]
           ELSE /\ UNCHANGED <<tcs, jobs>>
                /\ cl' = [cl EXCEPT !.pc = "components", !.tc = NoJob,
                                    !.swallowed = cl.swallowed \cup {e}]
    /\ UNCHANGED <<now, experiments, trials, assoc, runvars, next>>

\* try: tc.delete() / except: continue / time.sleep(.5)
CleanupDeleteTrialComponent(o) ==
    /\ cl.pc = "tc_delete"
    /\ LET e == TcDeleteError(cl.tc, o)
       IN  IF e = "ok"
           THEN /\ tcs' = {c \in tcs : c.name # cl.tc}
                /\ cl' = [cl EXCEPT !.pc = "components", !.tc = NoJob]
           ELSE /\ UNCHANGED tcs
                /\ cl' = [cl EXCEPT
                            !.pc = "components", !.tc = NoJob,
                            !.swallowed = cl.swallowed \cup {e},
                            !.skipped = IF e = "AssociatedElsewhere"
                                        THEN cl.skipped \cup
                                             {<<cl.tc, t.name, t.exp>> :
                                                t \in {u \in trials :
                                                         <<u.name, cl.tc>> \in assoc}}
                                        ELSE cl.skipped]
    /\ UNCHANGED <<now, experiments, trials, assoc, jobs, runvars, next>>

\* trial.delete(), after the loop over the trial's components
CleanupDeleteTrial(o) ==
    /\ cl.pc = "components"
    /\ cl.tcsTodo = {}
    /\ IF o # "ok"
       THEN /\ cl' = Raise(o, "trial.delete")
            /\ UNCHANGED trials
       ELSE IF cl.trial \notin TrialNames
       THEN /\ cl' = Raise("NotFound", "trial.delete")
            /\ UNCHANGED trials
       ELSE IF ComponentsOf(cl.trial) # {}
       THEN /\ cl' = Raise("HasDependents", "trial.delete")
            /\ UNCHANGED trials
       ELSE /\ trials' = {t \in trials : t.name # cl.trial}
            /\ cl' = [cl EXCEPT !.pc = "trials", !.trial = NoJob]
    /\ UNCHANGED <<now, experiments, tcs, assoc, jobs, runvars, next>>

ExperimentDeleteUnchecked(e) ==
    IF e \notin experiments THEN "NotFound" ELSE "ok"

\* The registry deletes an experiment no trial refers to.
ExperimentDeleteError(e) ==
    IF e \notin experiments THEN "NotFound"
    ELSE IF TrialsOf(e) # {} THEN "HasDependents"
    ELSE "ok"

\* experiment.delete(), after the loop over the trials
CleanupDeleteExperiment(o) ==
    /\ cl.pc = "trials"
    /\ cl.trialsTodo = {}
    /\ LET e == IF o # "ok" THEN o ELSE ExperimentDeleteError(experiment_name)
       IN  IF e = "ok"
           THEN /\ experiments' = experiments \ {experiment_name}
                /\ cl' = [cl EXCEPT !.pc = "done"]
           ELSE /\ UNCHANGED experiments
                /\ cl' = Raise(e, "experiment.delete")
    /\ UNCHANGED <<now, trials, tcs, assoc, jobs, runvars, next>>

\* --------------------------------------------------------- specification

\* One DAG run, other clients of the registry, and cleanup, interleaved.
Next ==
    \/ CreateExperiment
    \/ StartTraining
    \/ StartTransform
    \/ \E t \in Tasks : SubmitAccepted(t)
    \/ \E t \in Tasks : SubmitRejected(t)
    \/ TrainingJobCompleted
    \/ TrainingJobFailed
    \/ SkipDownstream
    \/ \E t \in TrialNames : \E c \in TcNames : ExtAssociate(t, c)
    \/ \E o \in Outcomes : CleanupListTrials(o)
    \/ \E o \in Outcomes : \E t \in cl.trialsTodo : CleanupLoadTrial(t, o)
    \/ \E o \in Outcomes : \E c \in cl.tcsTodo : CleanupRemoveTrialComponent(c, o)
    \/ \E o \in Outcomes : CleanupDeleteTrialComponent(o)
    \/ \E o \in Outcomes : CleanupDeleteTrial(o)
    \/ \E o \in Outcomes : CleanupDeleteExperiment(o)

Spec == Init /\ [][Next]_vars

\* The DAG run and its re-submissions, before cleanup is ever called.
NextRun ==
    \/ CreateExperiment
    \/ StartTraining
    \/ StartTransform
    \/ \E t \in Tasks : SubmitAccepted(t)
    \/ \E t \in Tasks : SubmitRejected(t)
    \/ TrainingJobCompleted
    \/ TrainingJobFailed
    \/ SkipDownstream
    \/ \E d \in 0..1 : ResetDagRun(d)

RunSpec == Init /\ [][NextRun]_vars


\* ------------------------------------------------------ listing executions

\* The sequences that hold the records of S once each, by creation time
\* ascending (records created at the same time come in either order).
RECURSIVE SortedByCreationTime(_)
SortedByCreationTime(S) ==
    IF S = {} THEN {<<>>}
    ELSE UNION {{<<m>> \o rest : rest \in SortedByCreationTime(S \ {m})} :
                  m \in {x \in S : \A y \in S : x.ctime <= y.ctime}}

\* experiment.list_trials(sort_by="CreationTime", sort_order="Ascending")
ListTrials(e) == SortedByCreationTime(TrialsOf(e))

\* execs_table: one row [trial_name, trial_source['SourceArn'], creation_time]
\* per listed trial
ExecsTable(executions) ==
    [i \in 1..Len(executions) |->
        [Name |-> executions[i].name, Source |-> executions[i].source,
         CreationTime |-> executions[i].ctime]]

\* ExperimentAnalytics(experiment_name=..., sort_by="CreationTime",
\* sort_order="Ascending").dataframe(): one row per trial component of the
\* experiment's trials
Analytics(e) ==
    SortedByCreationTime({c \in tcs : \E t \in TrialsOf(e) : <<t.name, c.name>> \in assoc})


\* ================================================================== claims

\* One workflow run on a fresh experiment has submitted Training and then
\* Transform, and nothing else has touched the registry.
OneRunTracked ==
    /\ ti["training"] = "success"
    /\ ti["transform"] = "success"
    /\ cl.pc = "idle"
    /\ next = 0

\* C1 as stated: after one workflow run that submits Training and then
\* Transform under the same ExperimentName, list_trials(experiment) returns
\* exactly one Trial, holding exactly two Trial Components (Training,
\* Transform), ordered by creation time ascending.
C1_OneTrialTwoComponents ==
    OneRunTracked =>
        \A ex \in ListTrials(experiment_name) :
            /\ Len(ex) = 1
            /\ Cardinality(ComponentsOf(ex[1].name)) = 2
            /\ \A rows \in Analytics(experiment_name) :
                 /\ Len(rows) = 2
                 /\ rows[1].display = "Training"
                 /\ rows[2].display = "Transform"
                 /\ rows[1].ctime <= rows[2].ctime

\* C1 amended: after one workflow run that submits Training and then
\* Transform under the same ExperimentName, list_trials(experiment) returns
\* exactly two Trials, one per submitted job, the training job's first (its
\* creation time is the earlier); each Trial's Source is its job and each
\* holds exactly one Trial Component; the analytics view has two rows,
\* Training then Transform, by creation time ascending.
C1_OneTrialPerExecution ==
    OneRunTracked =>
        /\ \A ex \in ListTrials(experiment_name) :
             /\ Len(ex) = 2
             /\ ExecsTable(ex)[1].Source = jobname["training"]
             /\ ExecsTable(ex)[2].Source = jobname["transform"]
             /\ ExecsTable(ex)[1].CreationTime < ExecsTable(ex)[2].CreationTime
             /\ \A i \in 1..2 : Cardinality(ComponentsOf(ex[i].name)) = 1
        /\ \A rows \in Analytics(experiment_name) :
             /\ Len(rows) = 2
             /\ rows[1].display = "Training"
             /\ rows[2].display = "Transform"
             /\ rows[1].ctime < rows[2].ctime

C1_Witness ==
    /\ OneRunTracked
    /\ Cardinality(TrialsOf(experiment_name)) = 2
    /\ Cardinality(tcs) = 2

\* C2: the transform task never starts before the training task has
\* succeeded; the value it pulls from the orchestrator is the job name the
\* train callable of the same run returned, the name of an existing training
\* job; transform is never run when training failed.
C2_TransformAfterTraining ==
    /\ ti["transform"] \notin {"none", "upstream_failed"} =>
         /\ ti["training"] = "success"
         /\ pulled = xcom["training"]
         /\ pulled = jobname["training"]
         /\ pulled \in jobs
         /\ pulled.kind = "training"
    /\ ti["training"] = "failed" =>
         /\ ti["transform"] \in {"none", "upstream_failed"}
         /\ phase["transform"] = TASK_PENDING

C2_Witness ==
    /\ resets >= 1
    /\ ti["transform"] = "success"
    /\ pulled = jobname["training"]
    /\ pulled.stamp > 0


\* The clock readings a and b give task t the same job name.
SameClockReading(t, a, b) ==
    IF t = "training" THEN a = b ELSE a \div TicksPerSec = b \div TicksPerSec

\* C6 as stated: a re-submission of a task of the run uses the job name of
\* the earlier attempt, so after any number of re-submissions there is at
\* most one Trial Component per logical job (per task) of the run.
C6_OneComponentPerLogicalJob ==
    \A k \in Tasks : Cardinality({c \in tcs : c.name.kind = k}) <= 1

\* C6 amended: a re-submission takes its job name from the clock at
\* submission, so it has the name of an earlier job only when submitted at
\* the same clock reading, and then the platform creates nothing for it:
\* there is at most one Trial Component (and one Trial) per job name, and a
\* re-submission at a clock reading at which no earlier attempt was accepted
\* has a job name that is still free.
C6_OneComponentPerJobName ==
    /\ \A c1, c2 \in tcs : c1.name = c2.name => c1 = c2
    /\ \A t1, t2 \in trials : t1.name = t2.name => t1 = t2
    /\ \A t \in Tasks :
         (/\ phase[t] = TASK_SUBMITTED
          /\ \A c \in tcs : c.name.kind = t => ~SameClockReading(t, c.ctime, now))
         => jobname[t] \notin jobs

C6_Witness ==
    /\ resets >= 1
    /\ \E t \in Tasks :
         /\ phase[t] = TASK_SUBMITTED
         /\ \E c \in tcs : c.name.kind = t
         /\ \A c \in tcs : c.name.kind = t => ~SameClockReading(t, c.ctime, now)

\* C8: the tracking state of a task attempt moves only PENDING -> SUBMITTED
\* -> TRACKED or SUBMIT_FAILED, and leaves TRACKED or SUBMIT_FAILED only when
\* the run is re-submitted; a failed submission creates no Trial Component
\* (nor Trial, nor job), makes the callable fail without a return value, and
\* the downstream task of the run is not submitted.
C8_AttemptStateMachine ==
    [][\A t \in Tasks :
         /\ phase'[t] # phase[t] =>
              \/ <<phase[t], phase'[t]>> \in
                    {<<TASK_PENDING, TASK_SUBMITTED>>,
                     <<TASK_SUBMITTED, TASK_TRACKED>>,
                     <<TASK_SUBMITTED, TASK_SUBMIT_FAILED>>}
              \/ resets' = resets + 1 /\ phase'[t] = TASK_PENDING
         /\ (phase[t] = TASK_SUBMITTED /\ phase'[t] = TASK_SUBMIT_FAILED) =>
              /\ UNCHANGED <<registry, jobs>>
              /\ ti'[t] = "failed"
              /\ xcom'[t] = NoJob
         /\ phase'["training"] = TASK_SUBMIT_FAILED =>
              /\ phase'["transform"] = TASK_PENDING
              /\ ti'["transform"] \in {"none", "upstream_failed"}
      ]_vars

C8_Witness ==
    /\ phase["training"] = TASK_SUBMIT_FAILED
    /\ ti["training"] = "failed"
    /\ ti["transform"] = "upstream_failed"
    /\ tcs = {}

\* C3: cleanup deletes in dependency order. With no concurrent activity, a
\* Trial Component is detached from the Trial when its delete is attempted,
\* every Trial Component of a Trial is detached when the Trial's delete is
\* attempted, every Trial of the Experiment is deleted when the Experiment's
\* delete is attempted, and no delete of cleanup fails with HasDependents.
C3_DependencyOrder ==
    cl.quiet =>
        /\ cl.pc = "tc_delete" => <<cl.trial, cl.tc>> \notin assoc
        /\ (cl.pc = "components" /\ cl.tcsTodo = {}) => ComponentsOf(cl.trial) = {}
        /\ (cl.pc = "trials" /\ cl.trialsTodo = {}) => TrialsOf(experiment_name) = {}
        /\ cl.err # "HasDependents"

C3_Witness ==
    /\ cl.pc = "done"
    /\ cl.quiet
    /\ Cardinality(jobs) = 2
    /\ tcs = {}
    /\ TrialsOf(experiment_name) = {}

\* C4 as stated: when the delete of a Trial Component fails with
\* AssociatedElsewhere, after cleanup has run to its end the component still
\* exists and is still associated with the other Trial.
C4_SharedComponentKept ==
    (cl.pc = "done" /\ cl.quiet /\ cl.swallowed \subseteq {"AssociatedElsewhere"}) =>
        \A s \in cl.skipped : s[1] \in TcNames /\ <<s[2], s[1]>> \in assoc

\* C4 amended: a delete of a Trial Component that fails with
\* AssociatedElsewhere never ends cleanup; cleanup goes on, deletes the Trial
\* and the Experiment; afterwards a component that was still attached to a
\* Trial of another experiment exists, is still associated with that Trial,
\* and is associated with no Trial of the cleaned experiment. (A component
\* shared with another Trial of the cleaned experiment is deleted with the
\* last of those Trials.)
C4_SharedComponentOfOtherExperimentKept ==
    /\ cl.err # "AssociatedElsewhere"
    /\ (cl.pc = "done" /\ cl.quiet) =>
         /\ experiment_name \notin experiments
         /\ TrialsOf(experiment_name) = {}
         /\ \A s \in cl.skipped :
              s[3] # experiment_name =>
                  /\ s[1] \in TcNames
                  /\ <<s[2], s[1]>> \in assoc
                  /\ \A t \in TrialsOf(experiment_name) : <<t.name, s[1]>> \notin assoc

C4_Witness ==
    /\ cl.pc = "done"
    /\ cl.quiet
    /\ \E s \in cl.skipped : s[3] # experiment_name /\ s[1] \in TcNames

\* C5: cleanup recovers from no error other than AssociatedElsewhere on the
\* delete of a Trial Component; any other error of a registry call, the
\* component delete included, ends cleanup and reaches the caller.
C5_OnlyAssociatedElsewhereRecovered ==
    cl.swallowed \subseteq {"AssociatedElsewhere"}

\* C7: a cleanup called on an experiment that no longer exists fails with
\* NotFound (or with the platform's transient error) at its first call and
\* changes nothing in the registry or the job platform.
C7_CleanupOfRemovedExperiment ==
    [][(cl' # cl /\ cl'.absent /\ cl'.quiet) =>
          /\ cl'.pc = "aborted"
          /\ cl'.at = "list_trials"
          /\ cl'.err \in {"NotFound", "TransientPlatformError"}
          /\ UNCHANGED <<registry, jobs>>
      ]_vars

C7_Witness ==
    /\ cl.absent
    /\ cl.err = "NotFound"
    /\ Cardinality(jobs) = 2
    /\ TrialsOf(experiment_name) = {}
    /\ experiment_name \notin experiments

\* C9: no step deletes or stops an external job: the set of jobs only grows,
\* and a step of cleanup leaves the jobs, the DAG run and the clock as they
\* are.
C9_JobsNeverDeleted ==
    [][/\ jobs \subseteq jobs'
       /\ cl'.pc # cl.pc => UNCHANGED <<jobs, runvars, now>>
      ]_vars

C9_Witness ==
    /\ cl.pc = "done"
    /\ Cardinality(jobs) = 2
    /\ tcs = {}

\* C10: under any interleaving of cleanup with a workflow run and other
\* clients, every Trial's Experiment exists; when a Trial was created after
\* cleanup listed the trials, experiment.delete fails with HasDependents and
\* the Experiment and the Trial remain.
C10_NoTrialWithoutExperiment ==
    /\ \A t \in trials : t.exp \in experiments
    /\ (cl.pc = "aborted" /\ cl.at = "experiment.delete" /\ cl.err = "HasDependents") =>
         /\ experiment_name \in experiments
         /\ TrialsOf(experiment_name) # {}

C10_Witness ==
    /\ cl.pc = "aborted"
    /\ cl.at = "experiment.delete"
    /\ cl.err = "HasDependents"
    /\ ~cl.quiet
    /\ TrialsOf(experiment_name) # {}

====
